---- MODULE Spec2Model ----
(***************************************************************************)
(* A model of manga.py: the field descriptors, the ModelType metaclass     *)
(* (field catalog and manipulator registration), the Document engine       *)
(* (construction, validation, attribute writes) and the Model persistence  *)
(* operations (find, find_one, save, delete) over an abstract document     *)
(* store.                                                                  *)
(***************************************************************************)
EXTENDS Integers, Sequences, FiniteSets, TLC

VARIABLES
    classes,                 \* the declared classes, in declaration order
    registered_collections,  \* _ModelManipulator.registered_collections
    manipulators,            \* _manipulators / the db's son manipulators
    db,                      \* the module global db: configured or not
    store,                   \* the backend: a set of [coll, doc]
    nextId,                  \* the backend's identity generator
    now,                     \* the wall clock, in microseconds
    obj,                     \* the entity the caller holds (or None)
    found,                   \* what the last find / find_one returned
    exc,                     \* what the last operation raised
    op,                      \* the last operation and its arguments
    log                      \* what the latest consecutive successful saves
                             \* of the entity stored

vars == <<classes, registered_collections, manipulators, db, store, nextId,
          now, obj, found, exc, op, log>>

-----------------------------------------------------------------------------
(* Bounds of the model.                                                    *)

MaxId == 1          \* identities the backend hands out
MaxTick == 4        \* microseconds the clock advances over a behaviour
MaxDecl == 2        \* type declarations of a behaviour (SpecDecl)

-----------------------------------------------------------------------------
(* Python values.  Every value is a record tagged by t; strings are        *)
(* sequences of characters so that strip() and len() are computed.         *)

NoneV == [t |-> "none"]
Num(n) == [t |-> "num", n |-> n]
Str(s) == [t |-> "str", s |-> s]
Dt(us, aware) == [t |-> "dt", us |-> us, tz |-> aware]
Dict(m) == [t |-> "dict", m |-> m]
List(e) == [t |-> "list", e |-> e]
Oid(n) == [t |-> "oid", oid |-> n]
\* an instance of a declared class: its class and its _data
Inst(cls, data) == [t |-> "inst", cls |-> cls, data |-> data]
\* the default producer of an auto DateTimeField: lambda: datetime.now(UTC())
NowProducer == [t |-> "callable"]

\* An exception in flight.  ValidationError carries (cls, attr, val).
NoErr == [exc |-> "none"]
Err(kind) == [exc |-> kind]
ValidationError(cls, attr, val) ==
    [exc |-> "ValidationError", cls |-> cls, attr |-> attr, val |-> val]
Raise(e) == [t |-> "raise", err |-> e]
IsRaise(v) == v.t = "raise"

\* bool(v): what `if v`, `not v` and `assert v` test
Truthy(v) ==
    CASE v.t = "none" -> FALSE
      [] v.t = "num"  -> v.n # 0
      [] v.t = "str"  -> v.s # <<>>
      [] v.t = "dict" -> DOMAIN v.m # {}
      [] v.t = "list" -> v.e # <<>>
      [] OTHER        -> TRUE

RECURSIVE LStrip(_)
LStrip(s) == IF s # <<>> /\ Head(s) = " " THEN LStrip(Tail(s)) ELSE s

RECURSIVE RStrip(_)
RStrip(s) ==
    IF s # <<>> /\ s[Len(s)] = " " THEN RStrip(SubSeq(s, 1, Len(s) - 1)) ELSE s

\* str.strip()
strip(s) == RStrip(LStrip(s))

\* EmailField.email_re.match(value): ^[\S]+@[\S]+\.[\S]+$
email_re_match(s) ==
    /\ \A i \in 1..Len(s) : s[i] # " "
    /\ \E i, j \in 1..Len(s) :
          /\ s[i] = "@" /\ s[j] = "."
          /\ 1 < i /\ i + 1 < j /\ j < Len(s)

\* The microsecond values m of the modelled clock window for which the
\* IEEE-754 double (m / 1000) * 1000 lies just below m, so that int() of it
\* is m - 1 (Python 3: `/` is true division).  Below 1100 these are the odd
\* values from 1001 to 1023.
FloatFallsShort(m) == m >= 1001 /\ m <= 1023 /\ m % 2 = 1

\* milli_trim: x.replace(microsecond=int((x.microsecond/1000)*1000))
milli_trim(x) ==
    LET m == x.us % 1000000
        trimmed == IF FloatFallsShort(m) THEN m - 1 ELSE m
    IN  Dt(x.us - m + trimmed, x.tz)

-----------------------------------------------------------------------------
(* Field descriptors: the constructors of Field and its subclasses.        *)

EmailMinLen == 5
EmailMaxLen == 100

Field(default, blank) ==
    [kind |-> "Field", blank |-> blank, default |-> default, length |-> <<>>,
     auto |-> "", document |-> 0, field |-> <<>>]

StringField(default, length, blank) ==
    [Field(default, blank) EXCEPT !.kind = "String", !.length = length]

EmailField(default, blank) ==
    [StringField(default, <<EmailMinLen, EmailMaxLen>>, blank)
        EXCEPT !.kind = "Email"]

\* DateTimeField.__init__ takes blank as a named parameter and does not pass
\* it on to Field.__init__, so the descriptor's blank is always False.
DateTimeField(default, blank, auto) ==
    [Field(IF auto \in {"modified", "created"} THEN NowProducer ELSE default,
           FALSE)
        EXCEPT !.kind = "DateTime", !.auto = auto]

DictField(default, blank) ==
    [Field(IF Truthy(default) THEN default ELSE Dict(<<>>), blank)
        EXCEPT !.kind = "Dict"]

DocumentField(default, document, blank) ==
    [Field(default, blank) EXCEPT !.kind = "Document", !.document = document]

\* field: <<>> for field=None, <<f>> for an element descriptor f
ListField(default, field, blank) ==
    [Field(IF Truthy(default) THEN default ELSE List(<<>>), blank)
        EXCEPT !.kind = "List", !.field = field]

-----------------------------------------------------------------------------
(* Classes.  classes is the sequence of declared classes; a class is       *)
(* referred to by its position.  A class record holds its __name__, its    *)
(* bases, its _collection and its _fields: `order` is the dict's insertion *)
(* order and `fields` maps a field name to its descriptor.                 *)

RECURSIVE issubclass(_, _)
issubclass(c, d) ==
    \/ c = d
    \/ \E i \in 1..Len(classes[c].bases) : issubclass(classes[c].bases[i], d)

AssertionError == Err("AssertionError")

RECURSIVE validate(_, _), to_storage(_, _), to_python(_, _),
          Document_validate(_, _), InitLoop(_, _, _, _, _, _),
          ListElemsValidate(_, _), ListMap(_, _, _), ValidateLoop(_, _, _)

\* Field.validate
Field_validate(f, value) ==
    IF ~f.blank /\ ~Truthy(value) THEN AssertionError ELSE NoErr

\* StringField.validate
StringField_validate(f, value) ==
    IF value.t # "str" THEN AssertionError
    ELSE IF ~f.blank /\ strip(value.s) = <<>> THEN AssertionError
    ELSE IF f.length # <<>>
              /\ ~(Len(strip(value.s)) >= f.length[1]
                   /\ Len(strip(value.s)) <= f.length[2])
         THEN AssertionError
    ELSE NoErr

\* EmailField.validate
EmailField_validate(f, value) ==
    LET r == StringField_validate(f, value)
    IN  IF r.exc # "none" THEN r
        ELSE IF ~email_re_match(value.s) THEN AssertionError ELSE NoErr

\* DateTimeField.validate
DateTimeField_validate(f, value) ==
    LET r == Field_validate(f, value)
    IN  IF r.exc # "none" THEN r
        ELSE IF (value.t = "dt" /\ value.tz) \/ value.t = "none" THEN NoErr
        ELSE AssertionError

\* DictField.validate
DictField_validate(f, value) ==
    IF value.t # "dict" THEN AssertionError
    ELSE IF ~f.blank /\ DOMAIN value.m = {} THEN AssertionError
    ELSE NoErr

\* DocumentField.validate
DocumentField_validate(f, value) ==
    IF ~f.blank /\ ~Truthy(value) THEN AssertionError
    ELSE IF Truthy(value)
         THEN IF f.document = 0 THEN Err("TypeError")
              ELSE IF ~(value.t = "inst" /\ issubclass(value.cls, f.document))
                   THEN AssertionError
              ELSE Document_validate(value, {})
    ELSE IF value.t = "none" THEN NoErr ELSE AssertionError

\* r is what self.field.validate raised on the first element of e
ListElemsNext(f, e, r) ==
    IF r.exc # "none" THEN r ELSE ListElemsValidate(f, Tail(e))

\* [self.field.validate(v) for v in value if self.field]
ListElemsValidate(f, e) ==
    IF e = <<>> THEN NoErr ELSE ListElemsNext(f, e, validate(f, Head(e)))

\* ListField.validate
ListField_validate(f, value) ==
    IF value.t # "list" THEN AssertionError
    ELSE IF ~f.blank /\ ~Truthy(value) THEN AssertionError
    ELSE IF f.field = <<>> THEN NoErr
    ELSE ListElemsValidate(f.field[1], value.e)

\* field.validate(value), by the descriptor's class: NoErr, or what it raises
validate(f, value) ==
    CASE f.kind = "Field"    -> Field_validate(f, value)
      [] f.kind = "String"   -> StringField_validate(f, value)
      [] f.kind = "Email"    -> EmailField_validate(f, value)
      [] f.kind = "DateTime" -> DateTimeField_validate(f, value)
      [] f.kind = "Dict"     -> DictField_validate(f, value)
      [] f.kind = "Document" -> DocumentField_validate(f, value)
      [] f.kind = "List"     -> ListField_validate(f, value)

\* `for v in value`: the elements (as a list), or the TypeError of a
\* non-iterable
Iter(value) ==
    CASE value.t = "list" -> value
      [] value.t = "str"  ->
            List([i \in 1..Len(value.s) |-> Str(<<value.s[i]>>)])
      [] OTHER            -> Raise(Err("TypeError"))

\* the converted list h, r..., or what converting h or one of r raised
ListMapCons(h, r) ==
    IF IsRaise(h) THEN h ELSE IF IsRaise(r) THEN r ELSE List(<<h>> \o r.e)

\* [self.field.to_storage(v) for v in value], [self.field.to_python(v) ...]
ListMap(f, e, dir) ==
    IF e = <<>> THEN List(<<>>)
    ELSE ListMapCons(IF dir = "storage" THEN to_storage(f, Head(e))
                     ELSE to_python(f, Head(e)),
                     ListMap(f, Tail(e), dir))

\* StringField.to_storage: value.strip()
StringField_to_storage(value) ==
    IF value.t = "str" THEN Str(strip(value.s))
    ELSE Raise(Err("AttributeError"))

\* DateTimeField.to_storage: milli_trim(value) if value else None
DateTimeField_to_storage(value) ==
    IF ~Truthy(value) THEN NoneV
    ELSE IF value.t = "dt" THEN milli_trim(value)
    ELSE Raise(Err("AttributeError"))

\* DocumentField.to_storage: getattr(value, '_data', None)
DocumentField_to_storage(value) ==
    IF value.t = "inst" THEN Dict(value.data) ELSE NoneV

\* ListField.to_storage
ListField_to_storage(f, value) ==
    IF f.field = <<>> THEN value
    ELSE LET it == Iter(value)
         IN  IF IsRaise(it) THEN it ELSE ListMap(f.field[1], it.e, "storage")

\* field.to_storage(value): the storage value, or Raise(..)
to_storage(f, value) ==
    CASE f.kind \in {"String", "Email"} -> StringField_to_storage(value)
      [] f.kind = "DateTime" -> DateTimeField_to_storage(value)
      [] f.kind = "Document" -> DocumentField_to_storage(value)
      [] f.kind = "List"     -> ListField_to_storage(f, value)
      [] OTHER               -> value

\* ListField.to_python
ListField_to_python(f, value) ==
    IF f.field = <<>> THEN value
    ELSE LET it == Iter(value)
         IN  IF IsRaise(it) THEN it ELSE ListMap(f.field[1], it.e, "python")

\* `fname in son` and son.get(fname) on a truthy son: fine on a dict;
\* a str or a list has no get, any other value is not a container
SonAccess(son) ==
    CASE son.t = "dict" -> NoErr
      [] son.t \in {"str", "list"} -> Err("AttributeError")
      [] OTHER -> Err("TypeError")

\* son.get(fname)
Get(m, fname) == IF fname \in DOMAIN m THEN m[fname] ELSE NoneV

\* the end of Document.__init__: e is what self.validate(..) raised
InitEnd(cls, acc, e) == IF e.exc = "none" THEN Inst(cls, acc) ELSE Raise(e)

\* self._data[fname] = val_storage, and on to the next field
InitStore(cls, data, son, i, acc, exempt, val_storage) ==
    IF IsRaise(val_storage) THEN val_storage
    ELSE InitLoop(cls, data, son, i + 1,
                  acc @@ (classes[cls].order[i] :> val_storage), exempt)

\* The loop body of Document.__init__ once val is obtained: the field is
\* exempt if the value comes from no son and is falsy; the stored value is
\* son.get(fname) under a son, field.to_storage(val) otherwise.
InitField(cls, data, son, i, acc, exempt, val) ==
    IF IsRaise(val) THEN val
    ELSE InitStore(cls, data, son, i, acc,
                   IF ~Truthy(son) /\ ~Truthy(val)
                   THEN exempt \cup {classes[cls].order[i]} ELSE exempt,
                   IF Truthy(son) THEN Get(son.m, classes[cls].order[i])
                   ELSE to_storage(classes[cls].fields[classes[cls].order[i]],
                                   val))

\* The loop of Document.__init__ from the i-th field of the catalog on, then
\* self.validate(exclude=validate_exempt).  acc is the _data filled so far,
\* exempt is validate_exempt.  The result is the instance, or Raise(..).
InitLoop(cls, data, son, i, acc, exempt) ==
    IF i > Len(classes[cls].order)
    THEN InitEnd(cls, acc, Document_validate(Inst(cls, acc), exempt))
    ELSE
    LET fname == classes[cls].order[i]
        field == classes[cls].fields[fname]
    IN  IF Truthy(son) /\ SonAccess(son).exc # "none"
        THEN Raise(SonAccess(son))
        ELSE InitField(cls, data, son, i, acc, exempt,
                 IF Truthy(son) /\ fname \in DOMAIN son.m
                 THEN to_python(field, son.m[fname])
                 ELSE IF Truthy(data) /\ fname \in DOMAIN data.m
                 THEN data.m[fname]
                 ELSE IF field.default = NowProducer THEN Dt(now, TRUE)
                 ELSE field.default)

\* Document.__init__(self, data, son): the instance, or Raise(..)
Document__init__(cls, data, son) == InitLoop(cls, data, son, 1, <<>>, {})

\* DocumentField.to_python: self.document_class(son=value)
DocumentField_to_python(f, value) ==
    IF f.document = 0 THEN Raise(Err("TypeError"))
    ELSE Document__init__(f.document, NoneV, value)

\* field.to_python(value): the python value, or Raise(..)
to_python(f, value) ==
    CASE f.kind = "Document" -> DocumentField_to_python(f, value)
      [] f.kind = "List"     -> ListField_to_python(f, value)
      [] OTHER               -> value

\* r is what fieldinstance.validate(python_val) raised on the i-th field
ValidateResult(self, exclude, i, r) ==
    IF r.exc = "AssertionError"
    THEN ValidationError(classes[self.cls].name, classes[self.cls].order[i],
                         self.data[classes[self.cls].order[i]])
    ELSE IF r.exc # "none" THEN r
    ELSE ValidateLoop(self, exclude, i + 1)

\* python_val is fieldinstance.to_python(self._data[fieldname])
ValidateField(self, exclude, i, python_val) ==
    IF IsRaise(python_val) THEN python_val.err
    ELSE ValidateResult(self, exclude, i,
             validate(classes[self.cls].fields[classes[self.cls].order[i]],
                      python_val))

\* The loop of Document.validate from the i-th field of the catalog on, over
\* the fields that are not excluded: NoErr, or the exception raised.
ValidateLoop(self, exclude, i) ==
    IF i > Len(classes[self.cls].order) THEN NoErr
    ELSE IF classes[self.cls].order[i] \in exclude
    THEN ValidateLoop(self, exclude, i + 1)
    ELSE IF classes[self.cls].order[i] \notin DOMAIN self.data
    THEN Err("KeyError")
    ELSE ValidateField(self, exclude, i,
             to_python(classes[self.cls].fields[classes[self.cls].order[i]],
                       self.data[classes[self.cls].order[i]]))

\* Document.validate(self, exclude)
Document_validate(self, exclude) == ValidateLoop(self, exclude, 1)

-----------------------------------------------------------------------------
(* Type declaration: ModelType.__new__ and _ModelManipulator.__init__.     *)

\* str.lower() on the class names of the model
lower(name) ==
    CASE name = "Document" -> "document"
      [] name = "Model" -> "model"
      [] name = "TimeStampedModel" -> "timestampedmodel"
      [] name = "TestDocument" -> "testdocument"
      [] name = "Note" -> "note"
      [] name = "TestBlank" -> "testblank"
      [] name = "TestString" -> "teststring"
      [] name = "TestWrongString" -> "testwrongstring"
      [] name = "TestDocField" -> "testdocfield"
      [] name = "TestNoteField" -> "testnotefield"
      [] name = "TestListField" -> "testlistfield"
      [] name = "TestDictField" -> "testdictfield"
      [] name = "TestDateTime" -> "testdatetime"
      [] name = "Alias" -> "alias"
      [] name \in {"A", "a"} -> "a"
      [] name \in {"B", "b"} -> "b"
      [] name \in {"C", "c"} -> "c"

\* dict.update, were the descriptors of cat to win over those of other
UpdateKeepsOld(cat, other) ==
    [order  |-> cat.order \o SelectSeq(other.order,
                                       LAMBDA k : k \notin DOMAIN cat.fields),
     fields |-> cat.fields @@ other.fields]

\* dict.update on a catalog: the keys of other not yet in cat are appended
\* in other's order, and other's descriptors replace cat's
Update(cat, other) ==
    [order  |-> cat.order \o SelectSeq(other.order,
                                       LAMBDA k : k \notin DOMAIN cat.fields),
     fields |-> other.fields @@ cat.fields]

\* for x in bases: dct['_fields'].update(getattr(x, '_fields', {}))
RECURSIVE InheritFields(_, _, _)
InheritFields(table, bases, cat) ==
    IF bases = <<>> THEN cat
    ELSE InheritFields(table, Tail(bases),
                       Update(cat, [order  |-> table[Head(bases)].order,
                                    fields |-> table[Head(bases)].fields]))

\* for attr, val in dct.items(): if isinstance(val, Field): ...
\* own is the class body's fields, a sequence of <<attr, descriptor>>
RECURSIVE OwnFields(_, _)
OwnFields(own, cat) ==
    IF own = <<>> THEN cat
    ELSE OwnFields(Tail(own),
                   Update(cat, [order  |-> <<Head(own)[1]>>,
                                fields |-> (Head(own)[1] :> Head(own)[2])]))

\* The class ModelType.__new__ builds.  coll is the class body's _collection,
\* "" when it has none.
rich_cls(table, name, bases, own, coll) ==
    LET cat == OwnFields(own, InheritFields(table, bases,
                                            [order |-> <<>>, fields |-> <<>>]))
    IN  [name |-> name, bases |-> bases, own |-> own, order |-> cat.order,
         fields |-> cat.fields,
         collection |-> IF coll = "" THEN lower(name) ELSE coll]

\* any([x.__name__ == 'Model' for x in bases])
NeedsManipulator(table, bases) ==
    \E i \in 1..Len(bases) : table[bases[i]].name = "Model"

\* _ModelManipulator.__init__: the collection is already registered
AlreadyDefined(registered, name) ==
    \E i \in 1..Len(registered) : registered[i] = lower(name)

\* A class statement on the module state st = [classes,
\* registered_collections, manipulators]: the state after it and what it
\* raised.  A raising class statement binds no class.
ModelType__new__(st, name, bases, own, coll) ==
    LET cls == rich_cls(st.classes, name, bases, own, coll)
    IN  IF ~NeedsManipulator(st.classes, bases)
        THEN [st EXCEPT !.classes = Append(@, cls), !.exc = NoErr]
        ELSE IF AlreadyDefined(st.registered_collections, name)
        THEN [st EXCEPT !.exc = [exc |-> "Exception",
                                 collection |-> lower(name)]]
        ELSE [classes |-> Append(st.classes, cls),
              registered_collections |->
                  Append(st.registered_collections, lower(name)),
              manipulators |->
                  Append(st.manipulators,
                         [cls |-> Len(st.classes) + 1,
                          cls_name |-> lower(name)]),
              exc |-> NoErr]

\* a class statement: its name, bases, fields and _collection
ClassStmt(name, bases, own, coll) ==
    [name |-> name, bases |-> bases, own |-> own, coll |-> coll]

\* the class statements stmts, executed in order
RECURSIVE Execute(_, _)
Execute(st, stmts) ==
    IF stmts = <<>> THEN st
    ELSE Execute(ModelType__new__(st, Head(stmts).name, Head(stmts).bases,
                                  Head(stmts).own, Head(stmts).coll),
                 Tail(stmts))

\* the classes of manga.py, by position
DocumentC == 1
ModelC == 2
TimeStampedModelC == 3

\* importing manga: class Document, class Model, class TimeStampedModel
Import ==
    Execute([classes |-> <<>>, registered_collections |-> <<>>,
             manipulators |-> <<>>, exc |-> NoErr],
            << ClassStmt("Document", <<>>, <<>>, ""),
               ClassStmt("Model", <<DocumentC>>,
                         << <<"_id", Field(NoneV, TRUE)>> >>, ""),
               ClassStmt("TimeStampedModel", <<ModelC>>,
                         << <<"created", DateTimeField(NoneV, FALSE, "created")>>,
                            <<"modified",
                              DateTimeField(NoneV, FALSE, "modified")>> >>,
                         "") >>)

-----------------------------------------------------------------------------
(* The declared program: classes after those of the test suite, with the   *)
(* fields and lengths cut down.  Note, TestNoteField (an embedded document *)
(* with blank fields only) and Alias (an explicit _collection) are added.  *)

TestDocumentC == 4
NoteC == 5
TestBlankC == 6
TestStringC == 7
TestWrongStringC == 8
AC == 9
BC == 10
CC == 11
TestDocFieldC == 12
TestNoteFieldC == 13
TestListFieldC == 14
TestDictFieldC == 15
TestDateTimeC == 16
AliasC == 17

Program ==
    << ClassStmt("TestDocument", <<DocumentC>>,
                 << <<"field1", StringField(Str(<<>>), <<>>, FALSE)>> >>, ""),
       ClassStmt("Note", <<DocumentC>>,
                 << <<"text", StringField(Str(<<>>), <<>>, TRUE)>> >>, ""),
       ClassStmt("TestBlank", <<ModelC>>,
                 << <<"bl", Field(NoneV, TRUE)>>,
                    <<"nbl", Field(NoneV, FALSE)>> >>, ""),
       ClassStmt("TestString", <<ModelC>>,
                 << <<"s1", StringField(Str(<<"a", "b", " ">>), <<2, 3>>,
                                        FALSE)>>,
                    <<"s4", StringField(Str(<<>>), <<>>, FALSE)>> >>, ""),
       ClassStmt("TestWrongString", <<ModelC>>,
                 << <<"a", StringField(Str(<<"a">>), <<2, 5>>, FALSE)>> >>,
                 ""),
       ClassStmt("A", <<ModelC>>,
                 << <<"fa", Field(Str(<<"b">>), FALSE)>> >>, ""),
       ClassStmt("B", <<AC>>,
                 << <<"fb", Field(Num(10), TRUE)>> >>, ""),
       ClassStmt("C", <<BC>>,
                 << <<"fc", Field(List(<<Num(10)>>), FALSE)>> >>, ""),
       ClassStmt("TestDocField", <<ModelC>>,
                 << <<"doc", DocumentField(NoneV, TestDocumentC, FALSE)>> >>,
                 ""),
       ClassStmt("TestNoteField", <<ModelC>>,
                 << <<"doc", DocumentField(NoneV, NoteC, FALSE)>> >>, ""),
       ClassStmt("TestListField", <<ModelC>>,
                 << <<"l2", ListField(NoneV,
                                      <<StringField(Str(<<>>), <<>>, FALSE)>>,
                                      FALSE)>>,
                    <<"f", StringField(Str(<<>>), <<>>, FALSE)>> >>, ""),
       ClassStmt("TestDictField", <<ModelC>>,
                 << <<"dic", DictField(NoneV, FALSE)>> >>, ""),
       ClassStmt("TestDateTime", <<ModelC>>,
                 << <<"dtime", DateTimeField(NoneV, FALSE, "")>>,
                    <<"dtime2", DateTimeField(NoneV, FALSE, "modified")>>,
                    <<"dtime3", DateTimeField(NoneV, FALSE, "created")>> >>,
                 ""),
       ClassStmt("Alias", <<ModelC>>,
                 << <<"fa", Field(NoneV, TRUE)>> >>, "a") >>

\* the module state once manga and the program's classes are declared
Declared == Execute(Import, Program)

\* the clock's first reading, in microseconds
ClockBase == 1000

\* Values a caller passes for a field: as a seed value, as a raw document's
\* value, or in an attribute write.
Candidates(f) ==
    CASE f.kind = "Field" -> {NoneV, Str(<<>>), Num(1)}
      [] f.kind \in {"String", "Email"} ->
            {Str(<<>>), Str(<<" ">>), Str(<<"a", " ">>), Str(<<"a", "b">>),
             Num(1)}
      [] f.kind = "DateTime" ->
            {NoneV, Dt(now, TRUE), Dt(now, FALSE)}
      [] f.kind = "Dict" ->
            {NoneV, Dict(<<>>), Dict([k |-> Num(1)])}
      [] f.kind = "Document" ->
            {NoneV, Str(<<"a">>),
             Inst(f.document, (classes[f.document].order[1] :> Str(<<>>))),
             Inst(f.document, (classes[f.document].order[1] :> Str(<<"a">>))),
             Dict((classes[f.document].order[1] :> Str(<<>>))),
             Dict((classes[f.document].order[1] :> Str(<<"a">>)))}
      [] f.kind = "List" ->
            {NoneV, List(<<>>), List(<<Str(<<"a", " ">>)>>),
             List(<<Num(1)>>), Str(<<"a">>)}

\* the identity a caller may supply itself
CallerId == Oid(0)

FieldCandidates(cls, fname) ==
    IF fname = "_id" THEN {CallerId}
    ELSE Candidates(classes[cls].fields[fname])

\* The mappings a caller passes as data or son: each field of the catalog
\* from the i-th on is left out or given one of its candidate values.
RECURSIVE Mappings(_, _)
Mappings(cls, i) ==
    IF i > Len(classes[cls].order) THEN {<<>>}
    ELSE LET rest == Mappings(cls, i + 1)
             fname == classes[cls].order[i]
         IN  rest \cup {(fname :> v) @@ r :
                            v \in FieldCandidates(cls, fname), r \in rest}

-----------------------------------------------------------------------------
(* The operations on an entity.                                            *)

\* the getter of ModelType.get_maker
getter(self, attr) ==
    to_python(classes[self.cls].fields[attr], Get(self.data, attr))

\* The setter, were it to store the value before it reports the failure
SetterStoresFirst(self, attr, val, r, stored) ==
    IF IsRaise(stored) THEN [obj |-> self, exc |-> stored.err]
    ELSE [obj |-> [self EXCEPT !.data = (attr :> stored) @@ @],
          exc |-> IF r.exc = "AssertionError"
                  THEN ValidationError(classes[self.cls].name, attr, val)
                  ELSE r]

\* The setter once cls._fields[attr].validate(val) raised r: stored is
\* cls._fields[attr].to_storage(val)
SetterResult(self, attr, val, r, stored) ==
    IF r.exc = "AssertionError"
    THEN [obj |-> self,
          exc |-> ValidationError(classes[self.cls].name, attr, val)]
    ELSE IF r.exc # "none" THEN [obj |-> self, exc |-> r]
    ELSE IF IsRaise(stored) THEN [obj |-> self, exc |-> stored.err]
    ELSE [obj |-> [self EXCEPT !.data = (attr :> stored) @@ @],
          exc |-> NoErr]

\* The setter of ModelType.set_maker: [obj |-> the entity after the write,
\* exc |-> what the write raised]
setter(self, attr, val) ==
    SetterResult(self, attr, val,
                 validate(classes[self.cls].fields[attr], val),
                 to_storage(classes[self.cls].fields[attr], val))

\* pre_save_val, were DateTimeField not to override it
NoPreSaveVal(f) == NoneV

\* Field.pre_save_val / DateTimeField.pre_save_val
pre_save_val(f) ==
    IF f.kind = "DateTime" /\ f.auto = "modified" THEN Dt(now, TRUE)
    ELSE NoneV

\* One pass of the first loop of Model.save:
\* value = fieldinstance.pre_save_val(); if value: setattr(self, ..)
PreSaveField(self, fieldname, value) ==
    IF Truthy(value) THEN setter(self, fieldname, value)
    ELSE [obj |-> self, exc |-> NoErr]

RECURSIVE PreSave(_, _)
\* w is the outcome of the pass for the i-th field
PreSaveNext(w, i) ==
    IF w.exc.exc # "none" THEN w ELSE PreSave(w.obj, i + 1)

\* The first loop of Model.save from the i-th field of the catalog on
PreSave(self, i) ==
    IF i > Len(classes[self.cls].order) THEN [obj |-> self, exc |-> NoErr]
    ELSE PreSaveNext(
             PreSaveField(self, classes[self.cls].order[i],
                 pre_save_val(classes[self.cls].fields[
                                  classes[self.cls].order[i]])),
             i)

\* the function m without the key k: del m[k]
Without(m, k) == [x \in DOMAIN m \ {k} |-> m[x]]

\* the documents the backend holds in collection coll under identity id
Stored(coll, id) ==
    {d \in store : d.coll = coll /\ Get(d.doc.m, "_id") = id}

\* Model.save after self.validate(): id is self._id, coll the collection.
\* up: the backend call succeeds.
SaveStore(entity, id, coll, up) ==
    LET same == [store |-> store, nextId |-> nextId]
        deleted == [entity EXCEPT !.data = Without(@, "_id")]
        inserted == [entity EXCEPT !.data = ("_id" :> Oid(nextId)) @@ @]
    IN  IF Truthy(id)
        THEN IF ~db THEN same @@ [obj |-> entity, exc |-> Err("TypeError")]
             ELSE IF ~up
             THEN same @@ [obj |-> entity, exc |-> Err("BackendError")]
             ELSE [obj |-> entity, exc |-> NoErr, nextId |-> nextId,
                   store |-> (store \ Stored(coll, id))
                             \cup {[coll |-> coll, doc |-> Dict(entity.data)]}]
        ELSE IF "_id" \notin DOMAIN entity.data
        THEN same @@ [obj |-> entity, exc |-> Err("KeyError")]
        ELSE IF ~db THEN same @@ [obj |-> deleted, exc |-> Err("TypeError")]
        ELSE IF ~up
        THEN same @@ [obj |-> deleted, exc |-> Err("BackendError")]
        ELSE [obj |-> inserted, exc |-> NoErr, nextId |-> nextId + 1,
              store |-> store \cup {[coll |-> coll,
                                     doc |-> Dict(inserted.data)]}]

\* Model.save after its first loop: v is what self.validate() raised
SaveValidated(entity, v, up) ==
    IF v.exc # "none"
    THEN [obj |-> entity, exc |-> v, store |-> store, nextId |-> nextId]
    ELSE SaveStore(entity, getter(entity, "_id"),
                   classes[entity.cls].collection, up)

\* pre is the outcome of the first loop of Model.save
SavePre(pre, up) ==
    IF pre.exc.exc # "none"
    THEN [obj |-> pre.obj, exc |-> pre.exc, store |-> store,
          nextId |-> nextId]
    ELSE SaveValidated(pre.obj, Document_validate(pre.obj, {}), up)

\* Model.save.  The result is the entity, the store, the identity generator
\* and what was raised.
Model_save(entity, up) == SavePre(PreSave(entity, 1), up)

\* Model.delete, were it to remove the document and keep the identity
DeleteKeepsIdentity(entity, id, w, up) ==
    IF ~Truthy(id)
    THEN [obj |-> entity, exc |-> Err("Exception"), store |-> store]
    ELSE IF ~db
    THEN [obj |-> entity, exc |-> Err("TypeError"), store |-> store]
    ELSE IF ~up
    THEN [obj |-> entity, exc |-> Err("BackendError"), store |-> store]
    ELSE [obj |-> entity, exc |-> NoErr,
          store |-> store \ Stored(classes[entity.cls].collection, id)]

\* Model.delete once self._id is read: w is the outcome of self._id = None
DeleteResult(entity, id, w, up) ==
    IF ~Truthy(id)
    THEN [obj |-> entity, exc |-> Err("Exception"), store |-> store]
    ELSE IF ~db
    THEN [obj |-> entity, exc |-> Err("TypeError"), store |-> store]
    ELSE IF ~up
    THEN [obj |-> entity, exc |-> Err("BackendError"), store |-> store]
    ELSE [obj |-> w.obj, exc |-> w.exc,
          store |-> store \ Stored(classes[entity.cls].collection, id)]

\* Model.delete
Model_delete(entity, up) ==
    DeleteResult(entity, getter(entity, "_id"),
                 setter(entity, "_id", NoneV), up)

\* _ModelManipulator.transform_outgoing, for the i-th manipulator on
RECURSIVE transform_outgoing(_, _, _)
transform_outgoing(son, coll, i) ==
    IF i > Len(manipulators) THEN son
    ELSE IF son.t # "raise" /\ Truthy(son)
            /\ manipulators[i].cls_name = coll
         THEN transform_outgoing(
                  Document__init__(manipulators[i].cls, NoneV, son), coll,
                  i + 1)
    ELSE transform_outgoing(son, coll, i + 1)

\* the documents Model.find / Model.find_one match: those of the class's
\* collection, with the identity id when spec is {'_id': id}
Matching(cls, id) ==
    {d \in store : /\ d.coll = classes[cls].collection
                   /\ (id = NoneV \/ Get(d.doc.m, "_id") = id)}

MkOp(name, cls, attr, val, up) ==
    [name |-> name, cls |-> cls, attr |-> attr, val |-> val, up |-> up]

\* manga.setup
Setup ==
    /\ db' = TRUE
    /\ exc' = IF db THEN Err("Exception") ELSE NoErr
    /\ op' = MkOp("setup", 0, "", NoneV, TRUE)
    /\ UNCHANGED <<classes, registered_collections, manipulators, store,
                   nextId, now, obj, found, log>>

\* x = cls(data) or x = cls(son=son); val records [data, son]
Construct(cls, data, son) ==
    LET r == Document__init__(cls, data, son)
    IN  /\ obj' = IF IsRaise(r) THEN NoneV ELSE r
        /\ exc' = IF IsRaise(r) THEN r.err ELSE NoErr
        /\ op' = MkOp("init", cls, "", List(<<data, son>>), TRUE)
        /\ log' = <<>>
        /\ UNCHANGED <<classes, registered_collections, manipulators, db,
                       store, nextId, now, found>>

\* x.attr = val
SetAttr(attr, val) ==
    /\ obj # NoneV
    /\ attr \in DOMAIN classes[obj.cls].fields
    /\ LET w == setter(obj, attr, val)
       IN  /\ obj' = w.obj
           /\ exc' = w.exc
    /\ op' = MkOp("set", obj.cls, attr, val, TRUE)
    /\ log' = <<>>
    /\ UNCHANGED <<classes, registered_collections, manipulators, db, store,
                   nextId, now, found>>

\* x.validate()
Validate ==
    /\ obj # NoneV
    /\ exc' = Document_validate(obj, {})
    /\ op' = MkOp("validate", obj.cls, "", NoneV, TRUE)
    /\ UNCHANGED <<classes, registered_collections, manipulators, db, store,
                   nextId, now, obj, found, log>>

\* the values x holds for its DateTimeFields declared auto='modified'
Modified(entity) ==
    [f \in {k \in DOMAIN classes[entity.cls].fields :
                /\ classes[entity.cls].fields[k].kind = "DateTime"
                /\ classes[entity.cls].fields[k].auto = "modified"}
        |-> Get(entity.data, f)]

\* the log once a save that raised e left the entity as entity: a successful
\* save is logged next to the one before it, a failed one clears the log
Logged(entity, e) ==
    IF e.exc # "none" THEN <<>>
    ELSE (IF log = <<>> THEN <<>> ELSE <<log[Len(log)]>>)
         \o <<[at |-> now, stored |-> Modified(entity)]>>

\* x.save()
Save(up) ==
    /\ obj # NoneV
    /\ issubclass(obj.cls, ModelC)
    /\ nextId <= MaxId \/ Truthy(getter(obj, "_id"))
    /\ LET r == Model_save(obj, up)
       IN  /\ obj' = r.obj
           /\ exc' = r.exc
           /\ store' = r.store
           /\ nextId' = r.nextId
           /\ log' = Logged(r.obj, r.exc)
    /\ op' = MkOp("save", obj.cls, "", NoneV, up)
    /\ UNCHANGED <<classes, registered_collections, manipulators, db, now,
                   found>>

\* x.delete(); val records the identity x had
Delete(up) ==
    /\ obj # NoneV
    /\ issubclass(obj.cls, ModelC)
    /\ LET r == Model_delete(obj, up)
       IN  /\ obj' = r.obj
           /\ exc' = r.exc
           /\ store' = r.store
    /\ op' = MkOp("delete", obj.cls, "", getter(obj, "_id"), up)
    /\ log' = <<>>
    /\ UNCHANGED <<classes, registered_collections, manipulators, db, nextId,
                   now, found>>

\* cls.find_one() and cls.find_one({'_id': id}) (id = None: no criteria);
\* next(cls.find(..)) returns any one of the matching documents too
Find(name, cls, id) ==
    /\ op' = MkOp(name, cls, "", id, TRUE)
    /\ IF ~db
       THEN found' = NoneV /\ exc' = Err("TypeError")
       ELSE IF Matching(cls, id) = {}
       THEN found' = NoneV /\ exc' = NoErr
       ELSE \E d \in Matching(cls, id) :
               LET r == transform_outgoing(d.doc, d.coll, 1)
               IN  /\ found' = IF IsRaise(r) THEN NoneV ELSE r
                   /\ exc' = IF IsRaise(r) THEN r.err ELSE NoErr
    /\ UNCHANGED <<classes, registered_collections, manipulators, db, store,
                   nextId, now, obj, log>>

\* the clock advances
Tick ==
    /\ now < ClockBase + MaxTick
    /\ \E d \in 1..2 : now' = now + d
    /\ UNCHANGED <<classes, registered_collections, manipulators, db, store,
                   nextId, obj, found, exc, op, log>>

\* the state once the program's classes are declared
Init ==
    /\ classes = Declared.classes
    /\ registered_collections = Declared.registered_collections
    /\ manipulators = Declared.manipulators
    /\ db = FALSE
    /\ store = {}
    /\ nextId = 1
    /\ now = ClockBase
    /\ obj = NoneV
    /\ found = NoneV
    /\ exc = NoErr
    /\ op = MkOp("import", 0, "", NoneV, TRUE)
    /\ log = <<>>

\* the caller has constructed no entity yet
Fresh == obj = NoneV /\ op.name \in {"import", "setup"}

\* the classes whose instances the specifications construct
EngineClasses ==
    {TestBlankC, TestStringC, TestWrongStringC, CC, TestDocFieldC,
     TestNoteFieldC, TestListFieldC, TestDictFieldC, AliasC}

\* the classes whose instances the persistence specification constructs
PersistClasses == {TestBlankC, TestStringC, CC, AliasC}

\* the classes whose collection is that of the entity the caller holds
SameCollection ==
    {c \in PersistClasses \cup {AC} :
        obj # NoneV /\ classes[c].collection = classes[obj.cls].collection}

\* the identities the caller looks up: none, the entity's, the deleted one
Identities ==
    {NoneV} \cup (IF obj # NoneV THEN {Get(obj.data, "_id")} ELSE {})
            \cup (IF op.name = "delete" THEN {op.val} ELSE {})

\* the seed values of a construction: none, or a value for one field but _id
Seeds(cls) == {x \in Mappings(cls, 2) : Cardinality(DOMAIN x) <= 1}

\* the values the caller writes to an attribute
Written(cls, attr) ==
    (IF attr = "_id" THEN {} ELSE FieldCandidates(cls, attr)) \cup {NoneV}

\* The persistence specification: the caller sets the module up, constructs
\* one entity, from no arguments or from a seed value for one field, and
\* then writes attributes, validates, saves, deletes and finds.
Next ==
    \/ (Fresh \/ db) /\ Setup
    \/ /\ Fresh
       /\ \E cls \in PersistClasses : \E m \in Seeds(cls) :
             Construct(cls, Dict(m), NoneV)
    \/ /\ obj # NoneV
       /\ \E attr \in DOMAIN classes[obj.cls].fields :
             \E val \in Written(obj.cls, attr) : SetAttr(attr, val)
    \/ Validate
    \/ \E up \in BOOLEAN : Save(up)
    \/ \E up \in BOOLEAN : Delete(up)
    \/ \E cls \in SameCollection : \E id \in Identities :
          Find("find_one", cls, id)
    \/ \E cls \in SameCollection : \E id \in Identities :
          Find("find", cls, id)

Spec == Init /\ [][Next]_vars

\* The construction specification: the caller constructs one entity from
\* any seed values or any raw document, and then validates and saves it.
NextInit ==
    \/ (Fresh \/ db) /\ Setup
    \/ /\ Fresh
       /\ \E cls \in EngineClasses : \E m \in Mappings(cls, 1) :
             Construct(cls, Dict(m), NoneV)
    \/ /\ Fresh
       /\ \E cls \in EngineClasses : \E m \in Mappings(cls, 1) :
             \/ Construct(cls, NoneV, Dict(m))
             \/ Construct(cls, NoneV, Dict(("zz" :> Num(1)) @@ m))
    \/ Validate
    \/ \E up \in BOOLEAN : Save(up)

SpecInit == Init /\ [][NextInit]_vars

\* the classes whose attributes the attribute specification writes
AttrClasses ==
    {TestBlankC, TestStringC, TestDocFieldC, TestNoteFieldC, TestListFieldC,
     TestDictFieldC}

\* The attribute specification: the caller constructs one entity, from no
\* arguments or from a seed value for one field, and then writes attributes
\* and validates.
NextAttr ==
    \/ /\ Fresh
       /\ \E cls \in AttrClasses : \E m \in Seeds(cls) :
             Construct(cls, Dict(m), NoneV)
    \/ /\ obj # NoneV
       /\ \E attr \in DOMAIN classes[obj.cls].fields :
             \E val \in FieldCandidates(obj.cls, attr) \cup {NoneV} :
                SetAttr(attr, val)
    \/ Validate

SpecAttr == Init /\ [][NextAttr]_vars

\* The clock specification: the caller sets the module up, constructs one
\* entity with timestamp fields and saves it again and again while the
\* clock advances, or does not.
NextTime ==
    \/ (Fresh \/ db) /\ Setup
    \/ /\ Fresh
       /\ \E m \in Seeds(TestDateTimeC) :
             Construct(TestDateTimeC, Dict(m), NoneV)
    \/ \E up \in BOOLEAN : Save(up)
    \/ Tick

SpecTime == Init /\ [][NextTime]_vars

-----------------------------------------------------------------------------
(* Type declarations: class statements executed after manga is imported.   *)

\* class name(bases): own..., with _collection = coll unless coll is ""
Declare(name, bases, own, coll) ==
    LET st == ModelType__new__(
                  [classes |-> classes,
                   registered_collections |-> registered_collections,
                   manipulators |-> manipulators, exc |-> NoErr],
                  name, bases, own, coll)
    IN  /\ Len(classes) < Len(Import.classes) + MaxDecl
        /\ classes' = st.classes
        /\ registered_collections' = st.registered_collections
        /\ manipulators' = st.manipulators
        /\ exc' = st.exc
        /\ op' = MkOp("class", Len(classes) + 1, name,
                      [t |-> "class", bases |-> bases, coll |-> coll], TRUE)
        /\ UNCHANGED <<db, store, nextId, now, obj, found, log>>

\* the state once manga is imported
InitDecl ==
    /\ classes = Import.classes
    /\ registered_collections = Import.registered_collections
    /\ manipulators = Import.manipulators
    /\ db = FALSE
    /\ store = {}
    /\ nextId = 1
    /\ now = ClockBase
    /\ obj = NoneV
    /\ found = NoneV
    /\ exc = NoErr
    /\ op = MkOp("import", 0, "", NoneV, TRUE)
    /\ log = <<>>

\* the names, class bodies and _collection values of the declarations
DeclNames == {"A", "a", "B"}

DeclBodies ==
    { <<>>,
      << <<"fa", Field(NoneV, TRUE)>> >>,
      << <<"fb", Field(Num(10), TRUE)>>,
         <<"fa", StringField(Str(<<>>), <<>>, FALSE)>> >> }

DeclCollections == {"", "a"}

\* the bases of a declaration: Document, Model or a class declared before
DeclBases == {<<b>> : b \in (1..Len(classes)) \ {TimeStampedModelC}}

\* The declaration specification: the program declares classes one after
\* the other.
NextDecl ==
    \/ (op.name = "import" \/ db) /\ Setup
    \/ \E name \in DeclNames : \E bases \in DeclBases :
          \E own \in DeclBodies : \E coll \in DeclCollections :
             Declare(name, bases, own, coll)

SpecDecl == InitDecl /\ [][NextDecl]_vars

-----------------------------------------------------------------------------
(* Properties of construction (SpecInit).                                  *)

\* the non-blank fields of cls that the construction arguments data and son
\* give no value
Unsupplied(cls, data, son) ==
    {f \in DOMAIN classes[cls].fields :
        /\ ~classes[cls].fields[f].blank
        /\ data = NoneV \/ f \notin DOMAIN data.m
        /\ son = NoneV \/ f \notin DOMAIN son.m}

\* C1: for every class and every non-blank field of it, a construction that
\* supplies no value for the field (no arguments, seed values or a raw
\* document omitting it) raises no ValidationError for that field, whatever
\* its default is, and save() on the unmodified instance raises
\* ValidationError.
C1_OmittedFieldConstructsThenSaveRaises ==
    [][ /\ op'.name = "init" =>
              \A f \in Unsupplied(op'.cls, op'.val.e[1], op'.val.e[2]) :
                 ~(/\ exc'.exc = "ValidationError"
                   /\ exc'.cls = classes[op'.cls].name
                   /\ exc'.attr = f)
        /\ (op.name = "init" /\ obj # NoneV /\ op'.name = "save"
            /\ Unsupplied(op.cls, op.val.e[1], op.val.e[2]) # {}) =>
              exc'.exc = "ValidationError" ]_vars

\* C2: a construction from seed values that supply, for some field, a value
\* that fails the field's validate (an explicit empty value for a non-blank
\* field included) raises ValidationError.
C2_ExplicitBadSeedValueRaises ==
    (op.name = "init" /\ op.val.e[2] = NoneV /\ op.val.e[1] # NoneV) =>
        \A f \in DOMAIN op.val.e[1].m :
           (/\ f \in DOMAIN classes[op.cls].fields
            /\ validate(classes[op.cls].fields[f], op.val.e[1].m[f]).exc
                   # "none")
           => exc.exc = "ValidationError"

\* the python form of the value the raw document son holds for field f of cls
PythonForm(cls, son, f) == to_python(classes[cls].fields[f], son.m[f])

\* C3: a construction from a raw document that holds, for some field of the
\* catalog, a value whose python form fails the field's validate raises
\* ValidationError.
C3_BadRawDocumentRaises ==
    (op.name = "init" /\ Truthy(op.val.e[2])) =>
        \A f \in DOMAIN op.val.e[2].m \cap DOMAIN classes[op.cls].fields :
           (/\ ~IsRaise(PythonForm(op.cls, op.val.e[2], f))
            /\ validate(classes[op.cls].fields[f],
                        PythonForm(op.cls, op.val.e[2], f)).exc # "none")
           => exc.exc = "ValidationError"

-----------------------------------------------------------------------------
(* Properties of persistence (Spec).                                       *)

\* C4: after an instance of a persisted class T is saved, find_one and find
\* on T return instances of T, never raw documents, whose _data is a stored
\* document of T's collection.
C4_FindReturnsInstancesOfTheClass ==
    (/\ op.name \in {"find_one", "find"}
     /\ obj # NoneV
     /\ op.cls = obj.cls
     /\ found # NoneV)
    => /\ found.t = "inst"
       /\ found.cls = op.cls
       /\ \E d \in Matching(op.cls, op.val) : found.data = d.doc.m

\* the documents of collection coll stored under identity id after the step
StoredAfter(coll, id) ==
    {d \in store' : d.coll = coll /\ Get(d.doc.m, "_id") = id}

\* C6: delete() on an entity with no identity raises and leaves the store and
\* the entity as they were; delete() on a saved entity, with the module set
\* up and the backend answering, removes the stored document of that
\* identity and sets the entity's _id to None; a following find or find_one
\* for that identity returns None and a following delete() raises.
C6_DeleteClearsIdentity ==
    [][ /\ (op'.name = "delete" /\ ~Truthy(getter(obj, "_id")))
           => /\ exc'.exc = "Exception"
              /\ store' = store
              /\ obj' = obj
        /\ (op'.name = "delete" /\ Truthy(getter(obj, "_id")) /\ db /\ op'.up)
           => /\ exc'.exc = "none"
              /\ StoredAfter(classes[obj.cls].collection,
                             getter(obj, "_id")) = {}
              /\ store' \subseteq store
              /\ obj'.data = ("_id" :> NoneV) @@ obj.data
        /\ (op.name = "delete" /\ exc.exc = "none"
            /\ op'.name \in {"find_one", "find"} /\ op'.val = op.val)
           => found' = NoneV /\ exc'.exc = "none"
        /\ (op.name = "delete" /\ exc.exc = "none" /\ op'.name = "delete")
           => exc'.exc = "Exception" /\ store' = store ]_vars

\* a saved entity was deleted: its document is gone and its _id is None
C6_Witness ==
    /\ op.name = "delete"
    /\ exc.exc = "none"
    /\ op.val.t = "oid"
    /\ obj.data["_id"] = NoneV
    /\ Stored(classes[obj.cls].collection, op.val) = {}
    /\ nextId > 1

\* C7: once its construction has completed, the key set of an entity's _data
\* is the key set of its class's catalog, in every state reached by attribute
\* writes, validate(), save() and delete(), whether the call returns or
\* raises; instances built from raw documents hold the catalog's keys only.
C7_DataKeysAreCatalogKeys ==
    /\ obj # NoneV => DOMAIN obj.data = DOMAIN classes[obj.cls].fields
    /\ found.t = "inst" =>
          DOMAIN found.data = DOMAIN classes[found.cls].fields

-----------------------------------------------------------------------------
(* Properties of type declarations (SpecDecl).                             *)

\* class c of table is class d or descends from it
RECURSIVE Descends(_, _, _)
Descends(table, c, d) ==
    \/ c = d
    \/ \E i \in 1..Len(table[c].bases) : Descends(table, table[c].bases[i], d)

\* the persisted classes of table: the classes that descend from Model
PersistedTypes(table) ==
    {k \in 1..Len(table) : k # ModelC /\ Descends(table, k, ModelC)}

\* the collection name a class statement asks for
AskedCollection(o) == IF o.val.coll = "" THEN lower(o.attr) ELSE o.val.coll

\* C5: no two distinct persisted classes are associated with the same
\* collection name; a declaration of a persisted class whose collection name
\* (the explicit _collection or the lower-cased class name) is that of a
\* class declared before raises an error naming the collection and declares
\* no class.
C5_CollectionsAreClaimedOnce ==
    [][ /\ \A i, j \in PersistedTypes(classes') :
              i # j => classes'[i].collection # classes'[j].collection
        /\ (/\ op'.name = "class"
            /\ \E i \in 1..Len(op'.val.bases) :
                  Descends(classes, op'.val.bases[i], ModelC)
            /\ \E k \in PersistedTypes(classes) :
                  classes[k].collection = AskedCollection(op'))
           => /\ exc'.exc = "Exception"
              /\ exc'.collection = AskedCollection(op')
              /\ classes' = classes ]_vars

\* the names of the fields a class body declares
OwnNames(c) == {c.own[i][1] : i \in 1..Len(c.own)}

\* the ancestors of class k of table
Ancestors(table, k) ==
    {a \in 1..Len(table) : a # k /\ Descends(table, k, a)}

\* The catalog of class k of table holds the fields of its ancestors and its
\* own, its own descriptors under the names its body declares and a base's
\* descriptor under every other name.
CatalogIsUnion(table, k) ==
    /\ DOMAIN table[k].fields =
          OwnNames(table[k])
          \cup UNION {DOMAIN table[a].fields : a \in Ancestors(table, k)}
    /\ \A i \in 1..Len(table[k].own) :
          table[k].fields[table[k].own[i][1]] = table[k].own[i][2]
    /\ \A f \in DOMAIN table[k].fields \ OwnNames(table[k]) :
          \E i \in 1..Len(table[k].bases) :
             /\ f \in DOMAIN table[table[k].bases[i]].fields
             /\ table[k].fields[f] = table[table[k].bases[i]].fields[f]

\* C10: the catalog of every declared class is the union of the catalogs of
\* its ancestors plus the fields its body declares, a field of the body
\* replacing an ancestor's field of the same name; a declaration leaves the
\* classes declared before it, their catalogs included, as they were.
C10_CatalogIsUnionOfAncestorsAndOwn ==
    [][ /\ \A k \in 1..Len(classes') : CatalogIsUnion(classes', k)
        /\ Len(classes') >= Len(classes)
        /\ \A k \in 1..Len(classes) : classes'[k] = classes[k] ]_vars

\* a declared class replaces a field of an ancestor by a field of its own
C10_Witness ==
    \E k \in 1..Len(classes) : \E a \in Ancestors(classes, k) :
       /\ "fa" \in OwnNames(classes[k])
       /\ "fa" \in DOMAIN classes[a].fields
       /\ classes[k].fields["fa"].kind # classes[a].fields["fa"].kind
       /\ "fb" \in DOMAIN classes[k].fields

-----------------------------------------------------------------------------
(* Properties of attribute writes (SpecAttr).                              *)

\* what field attr's validate raises on the value of the write o to entity
WriteVerdict(entity, o) == validate(classes[entity.cls].fields[o.attr], o.val)

\* the _data of entity once the write o has stored its value
WriteStored(entity, o) ==
    (o.attr :> to_storage(classes[entity.cls].fields[o.attr], o.val))
        @@ entity.data

\* C8: an attribute write entity.f = v whose value fails f's validate raises
\* ValidationError naming the entity's class, f and v and leaves every entry
\* of _data as it was; a write that passes validation changes _data[f] only,
\* to to_storage(v).
C8_FailedWriteNamesEntityAndField ==
    [][ op'.name = "set" =>
           IF WriteVerdict(obj, op').exc # "none"
           THEN /\ exc' = ValidationError(classes[obj.cls].name, op'.attr,
                                          op'.val)
                /\ obj' = obj
           ELSE /\ exc'.exc = "none"
                /\ obj'.cls = obj.cls
                /\ obj'.data = WriteStored(obj, op') ]_vars

\* C8, amended: a write whose value fails f's validate raises and leaves
\* every entry of _data as it was.  It raises ValidationError naming the
\* entity's class, f and v when f's validate rejects v by an assertion, and
\* what f's validate raised otherwise: for an embedded document that fails
\* its own validation, the ValidationError naming the embedded class, its
\* field and that field's stored value.  A write that returns changes
\* _data[f] only, to to_storage(v), and a write raises only if validate or
\* to_storage does.
C8_FailedWriteLeavesData ==
    [][ op'.name = "set" =>
           /\ exc'.exc # "none" => obj' = obj
           /\ WriteVerdict(obj, op').exc = "AssertionError" =>
                 exc' = ValidationError(classes[obj.cls].name, op'.attr,
                                        op'.val)
           /\ WriteVerdict(obj, op').exc \notin {"none", "AssertionError"} =>
                 exc' = WriteVerdict(obj, op')
           /\ exc'.exc = "none" =>
                 /\ obj'.cls = obj.cls
                 /\ obj'.data = WriteStored(obj, op')
           /\ (/\ WriteVerdict(obj, op').exc = "none"
               /\ ~IsRaise(to_storage(classes[obj.cls].fields[op'.attr],
                                      op'.val)))
              => exc'.exc = "none" ]_vars

\* an embedded document that fails its own validation was written: the
\* ValidationError names the embedded class, and _data holds what it held
C8_Witness ==
    /\ op.name = "set"
    /\ op.cls = TestDocFieldC
    /\ exc.exc = "ValidationError"
    /\ exc.cls = "TestDocument"
    /\ obj.data["doc"] # NoneV

-----------------------------------------------------------------------------
(* Properties of the clock (SpecTime).                                     *)

-----------------------------------------------------------------------------
(* Conversions called on a descriptor: validate, to_storage, to_python.    *)

\* the descriptors whose conversions are called: one or two of every kind
Descriptors ==
    { Field(NoneV, TRUE), Field(NoneV, FALSE),
      StringField(Str(<<>>), <<>>, FALSE), StringField(Str(<<>>), <<>>, TRUE),
      EmailField(Str(<<>>), FALSE),
      DateTimeField(NoneV, FALSE, ""),
      DictField(NoneV, FALSE), DictField(NoneV, TRUE),
      DocumentField(NoneV, TestDocumentC, FALSE),
      DocumentField(NoneV, NoteC, TRUE),
      ListField(NoneV, <<StringField(Str(<<>>), <<>>, FALSE)>>, FALSE),
      ListField(NoneV, <<>>, TRUE) }

\* the values the conversions of descriptor f are called on
Arguments(f) ==
    Candidates(f)
    \cup (IF f.kind = "Email" THEN {Str(<<"a", "@", "b", ".", "c">>)} ELSE {})

\* f.to_python(stored), where stored is what f.to_storage returned or raised
BackToPython(f, stored) ==
    IF IsRaise(stored) THEN stored ELSE to_python(f, stored)

\* f.validate(v), then f.to_python(f.to_storage(v)): exc is what validate
\* raised, found the value that came back
RoundTrip(f, v) ==
    /\ exc' = validate(f, v)
    /\ found' = BackToPython(f, to_storage(f, v))
    /\ op' = MkOp("convert", 0, f.kind, [t |-> "convert", desc |-> f, arg |-> v],
                  TRUE)
    /\ UNCHANGED <<classes, registered_collections, manipulators, db, store,
                   nextId, now, obj, log>>

\* The conversion specification: the caller converts values there and back
\* while the clock advances.
NextConvert ==
    \/ \E f \in Descriptors : \E v \in Arguments(f) : RoundTrip(f, v)
    \/ Tick

SpecConvert == Init /\ [][NextConvert]_vars

\* the timestamp v with its microseconds rounded down to whole milliseconds
WholeMillis(v) == Dt(v.us - (v.us % 1000), v.tz)

\* C11: for every kind of field and every value v its validate accepts, None
\* for a blank field included, to_python(to_storage(v)) is v, and for a
\* timestamp it is v with its microseconds rounded down to a whole number of
\* milliseconds.
C11_RoundTripIsIdentity ==
    (op.name = "convert" /\ exc.exc = "none") =>
        found = IF op.val.arg.t = "dt" THEN WholeMillis(op.val.arg)
                ELSE op.val.arg

-----------------------------------------------------------------------------
(* Properties of construction from a raw document (SpecInit).              *)

\* the default of field f of cls as Document.__init__ obtains it
DefaultOf(cls, f) ==
    IF classes[cls].fields[f].default = NowProducer THEN Dt(now, TRUE)
    ELSE classes[cls].fields[f].default

\* C12: an entity constructed from a raw document holds in _data, for every
\* field of the catalog the document has, the document's value unchanged,
\* and for every field of the catalog the document lacks, the field's
\* default converted with to_storage.
C12_RawDocumentFillsData ==
    (op.name = "init" /\ op.val.e[2] # NoneV /\ obj # NoneV) =>
        \A f \in DOMAIN classes[op.cls].fields :
           obj.data[f] = IF f \in DOMAIN op.val.e[2].m
                         THEN op.val.e[2].m[f]
                         ELSE to_storage(classes[op.cls].fields[f],
                                         DefaultOf(op.cls, f))

====
